---- MODULE Spec2Model ----
(***************************************************************************)
(* Ring buffer of sensor readings (buffer.h / buffer.c).                   *)
(*                                                                         *)
(* One ring_buffer_t owned by one caller.  Pointers head and tail are      *)
(* modelled as element offsets from buf->buffer.  A sensor_reading_t is    *)
(* an opaque value copied by struct assignment; ZeroReading is the         *)
(* all-zero reading memset leaves in a slot.                               *)
(***************************************************************************)
EXTENDS Integers, Sequences, FiniteSets

\* ---- bounds of the model ----
MaxCap == 3
NumReadings == 2
MaxWrites == 4
SizeBits == 6

\* ---- program constants ----
ZeroReading == 0
SizeofReading == 12

NULL == "NULL"
LIVE == "LIVE"

Capacities == 0..MaxCap
Readings == 1..NumReadings

\* ---- size_t arithmetic ----
\* size_t is an unsigned integer of SizeBits bits (the width is scaled down;
\* Capacities lies in the part of the range where no product below wraps).
SizeValues == 0..(2^SizeBits - 1)

\* a * b in size_t
size_mul(a, b) == (a * b) % (2^SizeBits)

\* The size argument of malloc and memset in buffer_create:
\* capacity * sizeof(sensor_reading_t), computed in size_t.
storage_bytes(cap) == size_mul(cap, SizeofReading)

\* The elements of sensor_reading_t that lie wholly inside that region.
storage_elems(cap) == storage_bytes(cap) \div SizeofReading

VARIABLES
    buf,        \* the caller's handle: NULL or LIVE (points at a ring_buffer_t)
    storage,    \* the region malloc returned for buf->buffer, by element
    head,       \* buf->head - buf->buffer
    tail,       \* buf->tail - buf->buffer
    capacity,   \* buf->capacity
    count,      \* buf->count
    status,     \* buf->status (bit-fields)
    op,         \* the public function called last
    argNull,    \* whether its reading/output pointer argument was NULL
    ret,        \* the value it returned
    out,        \* the caller's sensor_reading_t that read/peek copy into
    crashed,    \* the process was terminated by a NULL dereference
    written,    \* history: readings stored since buffer_create, oldest first
    readLog,    \* history: readings returned by buffer_read since buffer_create
    qret,       \* the value returned by the last call when it was a status query
    balance,    \* history: readings stored minus readings read back since
                \* buffer_create or the last buffer_clear call
    pc,         \* the caller: "use", or in main's drain loop ("drain", "done")
    drain_n,    \* count when the drain loop was entered
    drained     \* successful reads the drain loop has made

vars == <<buf, storage, head, tail, capacity, count, status,
          op, argNull, ret, out, crashed, written, readLog, qret, balance,
          pc, drain_n, drained>>

loop == <<pc, drain_n, drained>>

ring == <<storage, head, tail, capacity, count, status>>

\* malloc(capacity * sizeof(sensor_reading_t)) followed by memset(.., 0, ..)
Unzeroed(c) == [i \in 0..(c - 1) |-> 1]

Zeroed(c) == [i \in 0..(c - 1) |-> ZeroReading]

NoStatus == [is_full |-> 0, is_empty |-> 0, overflows |-> 0, reserved |-> 0]

\* The value a status query returns, by return type: bool, size_t or
\* buffer_status_t; NoResult after a call that is not a status query.
NoResult == [flag |-> FALSE, size |-> 0, flags |-> NoStatus]

BoolResult(b) == [NoResult EXCEPT !.flag = b]

SizeResult(n) == [NoResult EXCEPT !.size = n]

StatusResult(st) == [NoResult EXCEPT !.flags = st]

\* the status flags buffer_create initialises
FreshStatus == [is_full |-> 0, is_empty |-> 1, overflows |-> 0, reserved |-> 0]

Bit(b) == IF b THEN 1 ELSE 0

\* ---- private helpers (static, called by no public function) ----
\* advance_pointer(ptr, buf), as offsets from buf->buffer
advance_pointer(ptr, cap) == IF ptr + 1 = cap THEN 0 ELSE ptr + 1

\* pointer_distance(start, end, buf), as offsets from buf->buffer
pointer_distance(start, end, cap) ==
    IF end >= start THEN end - start ELSE (cap - start) + end

\* ---- queries (buffer.c 148-159, 179-188) ----
buffer_is_empty == (buf = NULL) \/ (count = 0)

Buffer_is_full == (buf # NULL) /\ (count = capacity)

buffer_count == IF buf = NULL THEN 0 ELSE count

buffer_free == IF buf = NULL THEN 0 ELSE capacity - count

buffer_get_status == IF buf # NULL THEN status ELSE NoStatus

\* ---- the program before main creates the buffer ----
Init ==
    /\ buf = NULL
    /\ storage = Zeroed(0)
    /\ head = 0
    /\ tail = 0
    /\ capacity = 0
    /\ count = 0
    /\ status = NoStatus
    /\ op = "none"
    /\ argNull = FALSE
    /\ ret = FALSE
    /\ out = ZeroReading
    /\ crashed = FALSE
    /\ written = <<>>
    /\ readLog = <<>>
    /\ qret = NoResult
    /\ balance = 0
    /\ pc = "use"
    /\ drain_n = 0
    /\ drained = 0

\* buffer_create(cap); allocated is whether both malloc calls returned
\* non-NULL (malloc(0) may return either).  The storage is the region of
\* capacity * sizeof(sensor_reading_t) bytes, a product taken in size_t.
buffer_create(cap, allocated) ==
    /\ ~crashed
    /\ buf = NULL
    /\ op' = "create"
    /\ argNull' = FALSE
    /\ UNCHANGED <<ret, out, crashed>>
    /\ IF allocated
       THEN /\ buf' = LIVE
            /\ head' = 0
            /\ tail' = 0
            /\ capacity' = cap
            /\ count' = 0
            /\ status' = FreshStatus
            /\ storage' = Zeroed(storage_elems(cap))
            /\ written' = <<>>
            /\ readLog' = <<>>
       ELSE UNCHANGED <<buf, storage, head, tail, capacity, count, status,
                        written, readLog>>

\* buffer_destroy(buf); the caller drops the handle afterwards.
buffer_destroy ==
    /\ ~crashed
    /\ op' = "destroy"
    /\ argNull' = FALSE
    /\ UNCHANGED <<ret, out, crashed>>
    /\ IF buf = NULL
       THEN UNCHANGED <<buf, storage, head, tail, capacity, count, status,
                        written, readLog>>
       ELSE /\ buf' = NULL
            /\ storage' = Zeroed(0)
            /\ head' = 0
            /\ tail' = 0
            /\ capacity' = 0
            /\ count' = 0
            /\ status' = NoStatus
            /\ written' = <<>>
            /\ readLog' = <<>>

\* buf->head++ and its wrap-around test in buffer_write, as an offset.
head_advanced_early(h, cap) == IF h + 1 >= cap - 1 THEN 0 ELSE h + 1

head_advanced(h, cap) == IF h + 1 >= cap THEN 0 ELSE h + 1

\* The full branch of buffer_write: flags only, the reading is dropped.
write_rejected_overwriting(reading) ==
    /\ status' = [status EXCEPT !.is_full = 1, !.overflows = 1]
    /\ ret' = FALSE
    /\ storage' = [i \in DOMAIN storage |-> IF i = head THEN reading ELSE storage[i]]
    /\ UNCHANGED <<head, count, written>>

write_rejected(reading) ==
    /\ status' = [status EXCEPT !.is_full = 1, !.overflows = 1]
    /\ ret' = FALSE
    /\ UNCHANGED <<storage, head, count, written>>

\* buffer_write(buf, reading).  The success path ends without a return
\* statement, so the value the caller sees is indeterminate: garbage.
buffer_write(reading, readingNull, garbage) ==
    /\ ~crashed
    /\ op' = "write"
    /\ argNull' = readingNull
    /\ UNCHANGED <<buf, out, crashed, readLog, capacity, tail>>
    /\ IF buf = NULL \/ readingNull
       THEN /\ ret' = FALSE
            /\ UNCHANGED <<storage, head, count, status, written>>
       ELSE IF count = capacity
       THEN write_rejected(reading)
       ELSE /\ Len(written) < MaxWrites
            /\ storage' = [storage EXCEPT ![head] = reading]
            /\ head' = head_advanced(head, capacity)
            /\ count' = count + 1
            /\ status' = [status EXCEPT !.is_empty = 0,
                                        !.is_full = Bit(count + 1 = capacity)]
            /\ written' = Append(written, reading)
            /\ ret' = garbage

\* buf->tail++ and its wrap-around test in buffer_read, as an offset.
tail_advanced_early(t, cap) == IF t + 1 >= cap - 1 THEN 0 ELSE t + 1

tail_advanced_stuck(t, cap) == IF t >= cap THEN 0 ELSE t

tail_advanced(t, cap) == IF t + 1 >= cap THEN 0 ELSE t + 1

\* The empty branch of buffer_read.
read_empty_zeroing ==
    /\ status' = [status EXCEPT !.is_empty = 1]
    /\ ret' = FALSE
    /\ out' = ZeroReading
    /\ UNCHANGED <<tail, count, readLog>>

read_empty ==
    /\ status' = [status EXCEPT !.is_empty = 1]
    /\ ret' = FALSE
    /\ UNCHANGED <<out, tail, count, readLog>>

\* The status bits buffer_read sets after removing a reading; n is the new count.
read_status_resetting(st, n) ==
    [is_full |-> 0, is_empty |-> Bit(n = 0), overflows |-> 0, reserved |-> 0]

read_status(st, n) == [st EXCEPT !.is_full = 0, !.is_empty = Bit(n = 0)]

\* buffer_read(buf, output)
buffer_read_cursor_test(outputNull) ==
    /\ ~crashed
    /\ op' = "read"
    /\ argNull' = outputNull
    /\ UNCHANGED <<buf, crashed, written, capacity, head, storage>>
    /\ IF buf = NULL \/ outputNull
       THEN /\ ret' = FALSE
            /\ UNCHANGED <<out, tail, count, status, readLog>>
       ELSE IF head = tail
       THEN read_empty
       ELSE /\ out' = storage[tail]
            /\ tail' = tail_advanced(tail, capacity)
            /\ count' = count - 1
            /\ status' = read_status(status, count - 1)
            /\ readLog' = Append(readLog, storage[tail])
            /\ ret' = TRUE

buffer_read(outputNull) ==
    /\ ~crashed
    /\ op' = "read"
    /\ argNull' = outputNull
    /\ UNCHANGED <<buf, crashed, written, capacity, head, storage>>
    /\ IF buf = NULL \/ outputNull
       THEN /\ ret' = FALSE
            /\ UNCHANGED <<out, tail, count, status, readLog>>
       ELSE IF count = 0
       THEN read_empty
       ELSE /\ out' = storage[tail]
            /\ tail' = tail_advanced(tail, capacity)
            /\ count' = count - 1
            /\ status' = read_status(status, count - 1)
            /\ readLog' = Append(readLog, storage[tail])
            /\ ret' = TRUE

\* buffer_peek(buf, output)
buffer_peek_consuming(outputNull) ==
    /\ ~crashed
    /\ op' = "peek"
    /\ argNull' = outputNull
    /\ UNCHANGED <<buf, crashed, written, readLog>>
    /\ UNCHANGED <<storage, head, capacity, status>>
    /\ IF buffer_is_empty \/ outputNull
       THEN /\ ret' = FALSE
            /\ UNCHANGED <<out, tail, count>>
       ELSE /\ out' = storage[tail]
            /\ tail' = tail_advanced(tail, capacity)
            /\ count' = count
            /\ ret' = TRUE

buffer_peek(outputNull) ==
    /\ ~crashed
    /\ op' = "peek"
    /\ argNull' = outputNull
    /\ UNCHANGED <<buf, crashed, written, readLog>>
    /\ UNCHANGED ring
    /\ IF buffer_is_empty \/ outputNull
       THEN /\ ret' = FALSE
            /\ UNCHANGED out
       ELSE /\ out' = storage[tail]
            /\ ret' = TRUE

\* buffer_clear(buf).  "if (buf = NULL) return;" assigns NULL to the
\* parameter and does not return; every store that follows goes through a
\* null pointer.  The build either traps there (trap) or the stores land
\* outside the ring buffer; the caller's ring_buffer_t is never touched.
buffer_clear(trap) ==
    /\ ~crashed
    /\ op' = "clear"
    /\ argNull' = FALSE
    /\ crashed' = trap
    /\ UNCHANGED <<buf, ret, out, written, readLog>>
    /\ UNCHANGED ring

\* ---- the status queries as calls; a query returns its value in qret ----
QueryFrame ==
    /\ argNull' = FALSE
    /\ UNCHANGED <<buf, ret, out, written, readLog, balance>>
    /\ UNCHANGED ring
    /\ UNCHANGED loop

call_buffer_is_empty ==
    /\ ~crashed
    /\ op' = "is_empty"
    /\ qret' = BoolResult(buffer_is_empty)
    /\ UNCHANGED crashed
    /\ QueryFrame

\* "(buf != NULL) & (buf->count == buf->capacity)": & evaluates both operands,
\* so a NULL handle is dereferenced; the build traps there (trap) or reads
\* some word and returns 0 & word = false.
call_Buffer_is_full(trap) ==
    /\ ~crashed
    /\ op' = "is_full"
    /\ IF buf = NULL
       THEN crashed' = trap /\ qret' = BoolResult(FALSE)
       ELSE crashed' = crashed /\ qret' = BoolResult(Buffer_is_full)
    /\ QueryFrame

call_buffer_count ==
    /\ ~crashed
    /\ op' = "count"
    /\ qret' = SizeResult(buffer_count)
    /\ UNCHANGED crashed
    /\ QueryFrame

call_buffer_free ==
    /\ ~crashed
    /\ op' = "free"
    /\ qret' = SizeResult(buffer_free)
    /\ UNCHANGED crashed
    /\ QueryFrame

call_buffer_get_status_clearing ==
    /\ ~crashed
    /\ op' = "get_status"
    /\ qret' = StatusResult(buffer_get_status)
    /\ status' = [status EXCEPT !.overflows = 0]
    /\ argNull' = FALSE
    /\ UNCHANGED <<buf, ret, out, written, readLog, balance, crashed>>
    /\ UNCHANGED <<storage, head, tail, capacity, count>>
    /\ UNCHANGED loop

call_buffer_get_status ==
    /\ ~crashed
    /\ op' = "get_status"
    /\ qret' = StatusResult(buffer_get_status)
    /\ UNCHANGED crashed
    /\ QueryFrame

Queries == {"is_empty", "is_full", "count", "free", "get_status"}

\* What a call that is not a status query leaves in the histories: no query
\* result, and the balance of readings stored and read back, restarted by
\* buffer_create, buffer_destroy and buffer_clear.
Accounting ==
    /\ qret' = NoResult
    /\ balance' = IF op' \in {"create", "destroy", "clear"}
                  THEN 0
                  ELSE balance + (Len(written') - Len(written))
                               - (Len(readLog') - Len(readLog))

\* A call made outside the drain loop.
History == Accounting /\ UNCHANGED loop

Next ==
    \/ \E cap \in Capacities, allocated \in BOOLEAN :
          buffer_create(cap, allocated) /\ History
    \/ buffer_destroy /\ History
    \/ \E reading \in Readings, readingNull \in BOOLEAN, garbage \in BOOLEAN :
          buffer_write(reading, readingNull, garbage) /\ History
    \/ \E outputNull \in BOOLEAN : buffer_read(outputNull) /\ History
    \/ \E outputNull \in BOOLEAN : buffer_peek(outputNull) /\ History
    \/ \E trap \in BOOLEAN : buffer_clear(trap) /\ History
    \/ call_buffer_is_empty
    \/ \E trap \in BOOLEAN : call_Buffer_is_full(trap)
    \/ call_buffer_count
    \/ call_buffer_free
    \/ call_buffer_get_status

Spec == Init /\ [][Next]_vars

\* ---- main's drain loop: while (buffer_read(buf, &out)) { ... } ----
\* The caller reaches the loop with a live buffer.
drain_begin ==
    /\ pc = "use" /\ buf = LIVE /\ ~crashed
    /\ pc' = "drain"
    /\ drain_n' = count
    /\ drained' = 0
    /\ UNCHANGED <<buf, op, argNull, ret, out, crashed, written, readLog,
                   qret, balance>>
    /\ UNCHANGED ring

\* One evaluation of the loop condition: a read, and the loop goes on while
\* it returns true.
drain_step ==
    /\ pc = "drain"
    /\ buffer_read(FALSE)
    /\ Accounting
    /\ drain_n' = drain_n
    /\ IF ret' THEN pc' = "drain" /\ drained' = drained + 1
               ELSE pc' = "done" /\ drained' = drained

\* After the loop: a further read with no write in between (main's Test 5).
drain_read_again ==
    /\ pc = "done"
    /\ buffer_read(FALSE)
    /\ Accounting
    /\ UNCHANGED loop

\* After the loop: the caller writes again; once a reading is stored the
\* buffer is in use again.
drain_write(reading, garbage) ==
    /\ pc = "done"
    /\ buffer_write(reading, FALSE, garbage)
    /\ Accounting
    /\ IF count' > count
       THEN pc' = "use" /\ drain_n' = 0 /\ drained' = 0
       ELSE UNCHANGED loop

\* Before the loop the caller uses the buffer through create, destroy, write,
\* read, peek and clear, with valid reading and output pointers.
NextDrain ==
    \/ \E cap \in Capacities, allocated \in BOOLEAN :
          pc = "use" /\ buffer_create(cap, allocated) /\ History
    \/ \E reading \in Readings, garbage \in BOOLEAN :
          pc = "use" /\ buffer_write(reading, FALSE, garbage) /\ History
    \/ pc = "use" /\ buffer_read(FALSE) /\ History
    \/ pc = "use" /\ buffer_peek(FALSE) /\ History
    \/ pc = "use" /\ buffer_destroy /\ History
    \/ \E trap \in BOOLEAN : pc = "use" /\ buffer_clear(trap) /\ History
    \/ drain_begin
    \/ drain_step
    \/ drain_read_again
    \/ \E reading \in Readings, garbage \in BOOLEAN : drain_write(reading, garbage)

\* The loop is sequential code: while it is in the loop its next read happens.
SpecDrain == Init /\ [][NextDrain]_vars /\ WF_vars(drain_step)

\* ---- buffer_create over the whole of size_t ----
\* The next store of buffer_write (*buf->head = *reading) or load of
\* buffer_read (*output = *buf->tail) falls outside the region malloc returned.
StoreOutside == buf = LIVE /\ count # capacity /\ head \notin DOMAIN storage

LoadOutside == buf = LIVE /\ count # 0 /\ tail \notin DOMAIN storage

\* buffer_write whose store falls outside the region: undefined behaviour.
\* The build traps there (trap), or the store lands in memory that is not the
\* buffer's and the function goes on as after any store.
write_past_region(reading, garbage, trap) ==
    /\ ~crashed
    /\ StoreOutside
    /\ Len(written) < MaxWrites
    /\ op' = "write"
    /\ argNull' = FALSE
    /\ crashed' = trap
    /\ UNCHANGED <<buf, out, readLog, capacity, tail, storage>>
    /\ IF trap
       THEN UNCHANGED <<head, count, status, written, ret>>
       ELSE /\ head' = head_advanced(head, capacity)
            /\ count' = count + 1
            /\ status' = [status EXCEPT !.is_empty = 0,
                                        !.is_full = Bit(count + 1 = capacity)]
            /\ written' = Append(written, reading)
            /\ ret' = garbage

\* buffer_read whose load falls outside the region: undefined behaviour.
\* The build traps there (trap), or the load yields whatever that memory
\* holds (found) and the function goes on as after any load.
read_past_region(found, trap) ==
    /\ ~crashed
    /\ LoadOutside
    /\ op' = "read"
    /\ argNull' = FALSE
    /\ crashed' = trap
    /\ UNCHANGED <<buf, written, capacity, head, storage>>
    /\ IF trap
       THEN UNCHANGED <<out, tail, count, status, readLog, ret>>
       ELSE /\ out' = found
            /\ tail' = tail_advanced(tail, capacity)
            /\ count' = count - 1
            /\ status' = read_status(status, count - 1)
            /\ readLog' = Append(readLog, found)
            /\ ret' = TRUE

\* The caller creates buffers of any capacity a size_t holds, writes and reads
\* them with valid pointers, and destroys them.
NextAlloc ==
    \/ \E cap \in SizeValues, allocated \in BOOLEAN :
          buffer_create(cap, allocated) /\ History
    \/ \E reading \in Readings, garbage \in BOOLEAN :
          ~StoreOutside /\ buffer_write(reading, FALSE, garbage) /\ History
    \/ \E reading \in Readings, garbage \in BOOLEAN, trap \in BOOLEAN :
          write_past_region(reading, garbage, trap) /\ History
    \/ ~LoadOutside /\ buffer_read(FALSE) /\ History
    \/ \E found \in Readings \cup {ZeroReading}, trap \in BOOLEAN :
          read_past_region(found, trap) /\ History
    \/ buffer_destroy /\ History

SpecAlloc == Init /\ [][NextAlloc]_vars

\* A call that reached the body of write/read/peek: live handle, valid pointer.
ValidCall(name) == op' = name /\ buf = LIVE /\ ~argNull'

IsPrefix(s, t) == Len(s) <= Len(t) /\ \A i \in 1..Len(s) : s[i] = t[i]

\* C1: strict FIFO across wrap-around.  The readings returned by successful
\* buffer_read calls are, in order, a prefix of the readings stored by
\* buffer_write; the slot at tail holds the earliest reading still held, and a
\* successful read hands exactly that reading to the caller.
C1_FifoOrder ==
    buf = LIVE =>
        /\ IsPrefix(readLog, written)
        /\ count > 0 => /\ Len(readLog) < Len(written)
                        /\ storage[tail] = written[Len(readLog) + 1]
        /\ (op = "read" /\ ret) => /\ Len(readLog) >= 1
                                  /\ out = written[Len(readLog)]

\* Capacity 2, four readings read back: head and tail have each wrapped twice.
C1_Witness ==
    /\ buf = LIVE /\ capacity = 2
    /\ op = "read" /\ ret
    /\ Len(readLog) = 4 /\ Len(written) = 4
    /\ written[3] # written[4]

\* C2: capacity bound.  On a fresh buffer of capacity >= 1 (nothing read yet,
\* no write rejected yet) a write among the first `capacity` returns true, and
\* the next one returns false and leaves buffer_count = capacity.
C2_CapacityBound ==
    [][(ValidCall("write") /\ capacity >= 1 /\ readLog = <<>>
            /\ status.overflows = 0)
        => IF Len(written) < capacity
           THEN ret' = TRUE
           ELSE ret' = FALSE /\ buffer_count' = capacity]_vars

\* C3: buffer_write returns true exactly when count < capacity held at the call.
C3_WriteReturnValue ==
    [][ValidCall("write") => (ret' = (count < capacity))]_vars

\* C4: reject-new.  A write at count = capacity leaves count, head, tail,
\* capacity and every storage slot as they were, returns false and raises
\* the overflow flag.
C4_RejectNew ==
    [][(ValidCall("write") /\ count = capacity)
        => /\ count' = count /\ head' = head /\ tail' = tail
           /\ capacity' = capacity /\ storage' = storage
           /\ status'.is_empty = status.is_empty
           /\ status'.overflows = 1
           /\ ret' = FALSE]_vars

\* Capacity >= 2 filled by writes alone, nothing read: the overflow flag is
\* up, so the last call is a write made after the one that filled the buffer.
C4_Witness ==
    /\ buf = LIVE /\ capacity >= 2 /\ count = capacity
    /\ op = "write" /\ ~argNull /\ ~ret
    /\ status.overflows = 1
    /\ readLog = <<>> /\ Len(written) = capacity
    /\ \A i \in DOMAIN storage : storage[i] = written[i + 1]

\* C5: underflow.  buffer_read at count = 0 returns false and leaves count,
\* head, tail, the overflow flag, the storage and the caller's output alone.
C5_Underflow ==
    [][(ValidCall("read") /\ count = 0)
        => /\ ret' = FALSE
           /\ count' = count /\ head' = head /\ tail' = tail
           /\ status'.overflows = status.overflows
           /\ storage' = storage
           /\ out' = out]_vars

\* A failed read right after the buffer was drained; the caller's output
\* still holds the last reading read.
C5_Witness ==
    /\ buf = LIVE /\ capacity >= 1 /\ count = 0
    /\ op = "read" /\ ~argNull /\ ~ret
    /\ Len(readLog) >= 2 /\ Len(readLog) = Len(written)
    /\ out = readLog[Len(readLog)] /\ out # ZeroReading
    /\ status.overflows = 1

\* C6: buffer_peek is read-only and idempotent.  It never changes the ring
\* buffer; on a non-empty buffer it returns true with the reading at tail, on
\* an empty one false; a peek repeated right after a peek returns the same
\* result, and a read right after a successful peek returns the peeked reading.
C6_PeekReadOnly ==
    [][/\ op' = "peek" => UNCHANGED ring
       /\ ValidCall("peek") =>
             IF count > 0 THEN ret' = TRUE /\ out' = storage[tail]
                          ELSE ret' = FALSE /\ out' = out
       /\ (op = "peek" /\ ~argNull /\ ValidCall("peek")) =>
             (ret' = ret /\ out' = out)
       /\ (op = "peek" /\ ~argNull /\ ret /\ ValidCall("read")) =>
             (ret' = TRUE /\ out' = out)]_vars

\* A successful peek on a wrapped buffer holding two readings, the older of
\* which differs from what the caller's output held before the reads began.
C6_Witness ==
    /\ buf = LIVE /\ count >= 2 /\ tail # 0 /\ head <= tail
    /\ op = "peek" /\ ~argNull /\ ret
    /\ out = written[Len(readLog) + 1]
    /\ out # written[Len(readLog) + 2]

\* C7: buffer_clear on a live buffer completes and leaves head = tail = start
\* of storage, count = 0, is_empty set, is_full and overflows clear.
C7_ClearResets ==
    (op = "clear" /\ buf = LIVE) =>
        /\ ~crashed
        /\ head = 0 /\ tail = 0 /\ count = 0
        /\ status.is_empty = 1 /\ status.is_full = 0 /\ status.overflows = 0

\* C8: the overflow flag is sticky.  A write rejected for fullness sets
\* buffer_get_status(buf).overflows; once set it stays set through every
\* write, read and peek, and on a live buffer only buffer_clear may reset it.
C8_OverflowSticky ==
    [][/\ (ValidCall("write") /\ count = capacity) =>
             buffer_get_status'.overflows = 1
       /\ (buf = LIVE /\ buffer_get_status.overflows = 1
             /\ op' \in {"write", "read", "peek"}) =>
             buffer_get_status'.overflows = 1
       /\ (buf = LIVE /\ buf' = LIVE /\ buffer_get_status.overflows = 1
             /\ buffer_get_status'.overflows = 0) => op' = "clear"]_vars

\* After the rejected write, readings were read and new ones stored; the flag
\* is still up.
C8_Witness ==
    /\ buf = LIVE /\ capacity >= 2
    /\ buffer_get_status.overflows = 1
    /\ Len(readLog) >= 2
    /\ Len(written) >= capacity + 2
    /\ op = "read" /\ ret

\* C9: full/empty reporting agrees with count, in the stored status bits and
\* in the query functions, and full and empty are never reported together.
C9_FullEmptyAgree ==
    buf = LIVE =>
        /\ (buffer_get_status.is_full = 1) <=> (count = capacity)
        /\ (buffer_get_status.is_empty = 1) <=> (count = 0)
        /\ Buffer_is_full <=> (count = capacity)
        /\ buffer_is_empty <=> (count = 0)
        /\ ~(buffer_get_status.is_full = 1 /\ buffer_get_status.is_empty = 1)
        /\ ~(Buffer_is_full /\ buffer_is_empty)

\* C10: fresh state.  A buffer just returned by buffer_create(capacity >= 1)
\* has count = 0, head = tail = start of storage, reports empty and not full,
\* has no overflow recorded, capacity free slots and all-zero storage.
C10_FreshState ==
    (op = "create" /\ buf = LIVE /\ capacity >= 1) =>
        /\ count = 0 /\ head = 0 /\ tail = 0
        /\ buffer_is_empty /\ ~Buffer_is_full
        /\ buffer_get_status.overflows = 0
        /\ buffer_get_status.is_empty = 1 /\ buffer_get_status.is_full = 0
        /\ buffer_count = 0
        /\ buffer_free = capacity
        /\ DOMAIN storage = 0..(capacity - 1)
        /\ \A i \in DOMAIN storage : storage[i] = ZeroReading

\* A buffer of capacity >= 2 created after an earlier one was used and
\* destroyed (the caller's output still holds a reading from the earlier one).
C10_Witness ==
    /\ op = "create" /\ buf = LIVE /\ capacity >= 2
    /\ out # ZeroReading

\* C11: zero capacity is rejected at construction: no live buffer has
\* capacity 0.
C11_ZeroCapacityRejected == buf = LIVE => capacity >= 1

\* C12: cursors stay inside storage: on a live buffer head and tail are slot
\* indices in [0, capacity) whenever an operation has returned.
C12_CursorsInStorage ==
    buf = LIVE => /\ head \in 0..(capacity - 1)
                  /\ tail \in 0..(capacity - 1)

\* C15: effect of a successful buffer_write (count < capacity): the reading
\* lands in the slot at the old head, head becomes (old head + 1) mod
\* capacity, count rises by exactly 1, and tail, the overflow flag, capacity
\* and every other slot are unchanged.
C15_WriteEffect ==
    [][(ValidCall("write") /\ count < capacity)
        => /\ written' = Append(written, storage'[head])
           /\ storage'[head] \in Readings
           /\ head' = (head + 1) % capacity
           /\ count' = count + 1
           /\ tail' = tail
           /\ status'.overflows = status.overflows
           /\ capacity' = capacity
           /\ DOMAIN storage' = DOMAIN storage
           /\ \A i \in DOMAIN storage : i # head => storage'[i] = storage[i]]_vars

\* A stored write whose head wrapped from the last slot back to the start,
\* over a slot that held an older, different reading.
C15_Witness ==
    /\ buf = LIVE /\ capacity >= 2
    /\ op = "write" /\ ~argNull
    /\ head = 0 /\ count >= 1 /\ count < capacity
    /\ Len(written) = 2 * capacity
    /\ storage[capacity - 1] = written[Len(written)]
    /\ written[Len(written)] # written[Len(written) - capacity]
    /\ status.overflows = 1

\* C16: effect of a successful buffer_read (count > 0): it returns true, the
\* output is a copy of the slot at the old tail, tail becomes (old tail + 1)
\* mod capacity, count falls by exactly 1, and head, the overflow flag,
\* capacity and every slot are unchanged.
C16_ReadEffect ==
    [][(ValidCall("read") /\ count > 0)
        => /\ ret' = TRUE
           /\ out' = storage[tail]
           /\ tail' = (tail + 1) % capacity
           /\ count' = count - 1
           /\ head' = head
           /\ status'.overflows = status.overflows
           /\ capacity' = capacity
           /\ storage' = storage]_vars

\* A successful read whose tail wrapped from the last slot back to the start.
C16_Witness ==
    /\ buf = LIVE /\ capacity >= 2
    /\ op = "read" /\ ~argNull /\ ret
    /\ tail = 0 /\ Len(readLog) = capacity
    /\ out = storage[capacity - 1] /\ out # ZeroReading
    /\ status.overflows = 1

\* C18: cursor/count coherence for capacity >= 1: index(head) = (index(tail)
\* + count) mod capacity; the wrap-aware distance from tail to head equals
\* count when the buffer is not full and 0 when it is; the count slots from
\* tail on hold the readings stored and not yet read, oldest first.
C18_CursorCountCoherence ==
    (buf = LIVE /\ capacity >= 1) =>
        /\ head = (tail + count) % capacity
        /\ pointer_distance(tail, head, capacity)
              = IF count = capacity THEN 0 ELSE count
        /\ count = Len(written) - Len(readLog)
        /\ \A k \in 0..(count - 1) :
              storage[(tail + k) % capacity] = written[Len(readLog) + k + 1]

\* Head has wrapped and sits below tail, with two readings held.
C18_Witness ==
    /\ buf = LIVE /\ capacity >= 3
    /\ head < tail /\ count = 2
    /\ pointer_distance(tail, head, capacity) = 2
    /\ Len(readLog) >= 2

\* C13: count accounting.  On a live buffer 0 <= count <= capacity,
\* buffer_count returns count, buffer_free returns capacity - count, the two
\* add up to capacity, and count equals the readings stored minus the readings
\* read back since creation or the last clear.
C13_CountAccounting ==
    (buf = LIVE /\ ~crashed) =>
        /\ 0 <= count /\ count <= capacity
        /\ buffer_count = count
        /\ buffer_free = capacity - count
        /\ buffer_count + buffer_free = capacity
        /\ count = balance

\* C14: status queries are pure.  On a live buffer each of the five queries
\* leaves the handle, count, head, tail, capacity, the status flags and every
\* slot unchanged, returns the value the state determines, and returns the
\* same value when called twice in a row.
C14_QueriesPure ==
    [][(op' \in Queries /\ buf = LIVE)
        => /\ UNCHANGED <<buf, storage, head, tail, capacity, count, status>>
           /\ ~crashed'
           /\ op' = "is_empty" => qret'.flag = (count = 0)
           /\ op' = "is_full" => qret'.flag = (count = capacity)
           /\ op' = "count" => qret'.size = count
           /\ op' = "free" => qret'.size = capacity - count
           /\ op' = "get_status" => qret'.flags = status
           /\ op = op' => qret' = qret]_vars

\* buffer_get_status called on a wrapped, partly filled buffer whose overflow
\* flag is up.
C14_Witness ==
    /\ buf = LIVE /\ capacity >= 2
    /\ op = "get_status"
    /\ qret.flags.overflows = 1 /\ qret.flags.is_full = 0
    /\ qret.flags.is_empty = 0
    /\ status = qret.flags
    /\ tail # 0 /\ count >= 1

\* C17: a cleared buffer behaves like a fresh one.  When buffer_clear has
\* returned, the buffer is in the state of a new buffer of the same capacity
\* (no reading held, cursors together, fresh flags), and the call that follows
\* returns what it returns on a new buffer: a write is stored, a read or peek
\* fails without handing out an earlier reading, the queries report empty.
C17_ClearedLikeFresh ==
    [][/\ (op' = "clear" /\ buf = LIVE /\ ~crashed')
            => (count' = 0 /\ head' = tail' /\ status' = FreshStatus)
       /\ (op = "clear" /\ buf = LIVE /\ ~crashed)
            => /\ ValidCall("write") =>
                     (capacity >= 1 => written' = Append(written, storage'[head]))
               /\ ValidCall("read") => (ret' = FALSE /\ out' = out)
               /\ ValidCall("peek") => (ret' = FALSE /\ out' = out)
               /\ op' = "is_empty" => qret'.flag = TRUE
               /\ op' = "is_full" => qret'.flag = (capacity = 0)
               /\ op' = "count" => qret'.size = 0
               /\ op' = "free" => qret'.size = capacity
               /\ op' = "get_status" => qret'.flags = FreshStatus]_vars

\* C20: NULL-handle safety.  Every public operation called with a NULL handle
\* returns without a fault and changes nothing: write, read and peek return
\* false, buffer_is_empty true, buffer_is_full false, buffer_count and
\* buffer_free 0, buffer_get_status all-zero flags; clear and destroy are
\* no-ops.
C20_NullHandleSafe ==
    [][(buf = NULL /\ op' # "create")
        => /\ ~crashed'
           /\ UNCHANGED <<buf, storage, head, tail, capacity, count, status, out>>
           /\ op' \in {"write", "read", "peek"} => ret' = FALSE
           /\ op' = "is_empty" => qret'.flag = TRUE
           /\ op' = "is_full" => qret'.flag = FALSE
           /\ op' \in {"count", "free"} => qret'.size = 0
           /\ op' = "get_status" => qret'.flags = NoStatus]_vars

\* C19: draining terminates.  Entered with count = n, the loop
\* while (buffer_read(buf, &out)) makes exactly n successful reads, which hand
\* out the n held readings, and stops at the first failed read with count = 0
\* and the buffer reporting empty; further reads fail until a write is stored.
C19_DrainTerminates ==
    /\ [](pc = "drain" => drained + count = drain_n)
    /\ [](pc = "done" => /\ drained = drain_n
                         /\ count = 0
                         /\ buffer_is_empty
                         /\ buffer_get_status.is_empty = 1
                         /\ Len(readLog) = Len(written)
                         /\ (op = "read" => ret = FALSE))
    /\ [][(pc = "done" /\ op' = "read") => (ret' = FALSE /\ pc' = "done")]_vars
    /\ [][(pc = "done" /\ pc' = "use") => (op' = "write" /\ count' = 1)]_vars
    /\ (pc = "drain" ~> pc = "done")

\* The loop has ended after draining a full, wrapped buffer of capacity >= 2.
C19_Witness ==
    /\ pc = "done" /\ buf = LIVE /\ capacity >= 2
    /\ drain_n = capacity /\ drained = drain_n
    /\ op = "read" /\ ~ret
    /\ Len(readLog) > capacity
    /\ head = tail /\ tail # 0

\* C21: storage size under size_t arithmetic.  For every capacity a size_t
\* holds, a buffer that buffer_create returned has storage that holds
\* `capacity` elements, also when capacity * sizeof(sensor_reading_t) wraps
\* around: every slot buffer[0 .. capacity-1] lies inside the allocated region,
\* so head cannot leave the region before it reaches buffer + capacity.
C21_StorageHoldsCapacity ==
    buf = LIVE =>
        /\ \A i \in 0..(capacity - 1) : i \in DOMAIN storage
        /\ count < capacity => head \in DOMAIN storage

====
